---- MODULE Spec2Model ----
(***************************************************************************)
(* Model of src/fs/unix.rs: enumeration of the extended attributes of a    *)
(* file.  `ext_attrs` lists the attribute names of a path once and wraps   *)
(* the name sequence in the iterator `ExtAttrs`; `ExtAttrs::next` pulls    *)
(* names from that sequence and fetches each value with `ext_attr_value`,  *)
(* which logs a warning and forgets the error when `xattr::get` fails.     *)
(*                                                                         *)
(* The file system and the `xattr` crate are the environment: the model    *)
(* keeps the attributes of each path in `fs`, lets another process change  *)
(* them between any two system calls, and lets every fetch fail.           *)
(***************************************************************************)
EXTENDS Integers, Sequences, FiniteSets, TLC

\* ------------------------------------------------------------------ bounds
\* Number of distinct attribute names a file can carry.
MaxNames == 3
\* Number of changes another process makes to the attributes of a file.
MaxMutations == 1
\* Number of pulls the caller makes after the iterator has returned None.
MaxDonePulls == 2

\* ------------------------------------------------------------- value sets
NamePool == <<"a", "b", "c", "d", "e", "f">>
Names == {NamePool[k] : k \in 1..MaxNames}
\* Contents (Vec<u8>) an attribute value can have.
Values == {"v1", "v2"}
\* What a file stores for a name: nothing, a name without value, or bytes.
Absent == "absent"
NoValue == "novalue"
AttrStates == {Absent, NoValue} \cup Values
Paths == {"p1", "p2"}
Iters == {"i1", "i2"}
\* Iterator slots used by the single-enumeration specification.
SoloIters == {"i1"}
NoPath == "-"
NoError == "-"

\* Option<T>
None == [some |-> FALSE]
Some(x) == [some |-> TRUE, v |-> x]
\* Result<T, E>
Ok(x) == [ok |-> TRUE, value |-> x]
Err(e) == [ok |-> FALSE, error |-> e]

\* The position of a name in the pool.
Pos(n) == CHOOSE k \in 1..Len(NamePool) : NamePool[k] = n

\* All sequences that hold every name of the set S once.
Perms(S) ==
  {s \in [1..Cardinality(S) -> S] : \A j, k \in 1..Cardinality(S) : s[j] = s[k] => j = k}

\* The orders in which a listing reports the names of the set S.  The order
\* is implementation-defined; names are opaque to the program, so up to a
\* renaming of the names every order is the ascending one.  The descending
\* order is kept as well, so that listing order and name order differ.
ListOrders(S) ==
  {s \in Perms(S) :
     \/ \A j, k \in 1..Len(s) : j < k => Pos(s[j]) < Pos(s[k])
     \/ \A j, k \in 1..Len(s) : j < k => Pos(s[j]) > Pos(s[k])}

Range(s) == {s[k] : k \in 1..Len(s)}

\* ----------------------------------------------------------------- state
VARIABLES
  fs,     \* fs[p]: [exists, attrs], the file at path p and its attributes
  its,    \* its[i]: what ext_attrs returned for slot i (the ExtAttrs value)
  pc,     \* pc[i]: "loop" while next() continues after a failed fetch, else "idle"
  out,    \* out[i]: the values next() has returned so far, in order
  log,    \* the warning records emitted so far (process-wide logger)
  lists,  \* lists[i]: the xattr::list calls made for slot i, with results
  gets,   \* gets[i]: the xattr::get calls made for slot i, with results
  muts    \* number of changes made by the other process so far

vars == <<fs, its, pc, out, log, lists, gets, muts>>

NoFile == [exists |-> FALSE, attrs |-> [n \in Names |-> Absent]]
Files == {[exists |-> TRUE, attrs |-> a] : a \in [Names -> AttrStates]}
Present(file) == {n \in Names : file.attrs[n] # Absent}

\* ------------------------------------------------------- the xattr crate
\* xattr::list(path): the names currently attached to the file, in an
\* implementation-defined order, or an I/O error.
XattrList(f, path) ==
  IF ~f[path].exists
  THEN {Err("NotFound")}
  ELSE {Ok(s) : s \in ListOrders(Present(f[path]))} \cup {Err("PermissionDenied")}

\* xattr::get(path, name): the bytes stored for the name (None when there is
\* no value to report), or an I/O error.
XattrGet(f, path, name) ==
  IF ~f[path].exists
  THEN {Err("NotFound")}
  ELSE IF f[path].attrs[name] = Absent
  THEN {Ok(None), Err("NoData")}
  ELSE IF f[path].attrs[name] = NoValue
  THEN {Ok(None), Err("PermissionDenied")}
  ELSE {Ok(Some(f[path].attrs[name])), Err("PermissionDenied")}

\* ------------------------------------------------------------ the program
\* A variant of the conversion that does not keep the bytes it is given.
FromVecStale(bytes) == [inner |-> "v1"]

\* std::os::unix::ffi::OsStringExt::from_vec: wraps the bytes in an OsString.
FromVec(bytes) == [inner |-> bytes]

\* A variant of the value conversion that loses the bytes.
MapFromVecDrop(opt) == None

\* value.map(OsStringExt::from_vec)
MapFromVec(opt) == IF opt.some THEN Some(FromVec(opt.v)) ELSE None

\* The record the warn! macro hands to the logger.
Warning(name, path, cause) == [name |-> name, path |-> path, cause |-> cause]

\* A variant of ext_attr_value that treats a fetch without value as a failure.
ExtAttrValueRequired(path, name, got) ==
  IF got.ok /\ got.value.some
  THEN [res |-> Ok(MapFromVec(got.value)), warns |-> <<>>]
  ELSE [res |-> Err("()"),
        warns |-> <<Warning(name, path, IF got.ok THEN "NoData" ELSE got.error)>>]

\* A variant of ext_attr_value that forgets the error without logging it.
ExtAttrValueSilent(path, name, got) ==
  IF got.ok
  THEN [res |-> Ok(MapFromVec(got.value)), warns |-> <<>>]
  ELSE [res |-> Err("()"), warns |-> <<>>]

\* ext_attr_value(path, name), given what xattr::get returned: the value on
\* success; on failure Err(()) and one warning.
ExtAttrValue(path, name, got) ==
  IF got.ok
  THEN [res |-> Ok(MapFromVec(got.value)), warns |-> <<>>]
  ELSE [res |-> Err("()"), warns |-> <<Warning(name, path, got.error)>>]

ExtAttr(name, value) == [name |-> name, value |-> value]

Uncalled == [tag |-> "Uncalled", path |-> NoPath, iter |-> <<>>, error |-> NoError]

\* A variant of ext_attrs that reports an empty listing as an error.
ExtAttrsResultEmptyIsError(path, listed) ==
  IF listed.ok /\ listed.value # <<>>
  THEN [tag |-> "Ok", path |-> path, iter |-> listed.value, error |-> NoError]
  ELSE [tag |-> "Err", path |-> NoPath, iter |-> <<>>,
        error |-> IF listed.ok THEN "NoData" ELSE listed.error]

\* A variant of ext_attrs that swallows the listing error and hands out an
\* iterator over no names.
ExtAttrsResultSwallow(path, listed) ==
  [tag |-> "Ok", path |-> path, iter |-> IF listed.ok THEN listed.value ELSE <<>>,
   error |-> NoError]

\* ext_attrs(path), given what xattr::list returned: `?` returns the error,
\* otherwise the iterator holds the path and the name sequence.
ExtAttrsResult(path, listed) ==
  IF listed.ok
  THEN [tag |-> "Ok", path |-> path, iter |-> listed.value, error |-> NoError]
  ELSE [tag |-> "Err", path |-> NoPath, iter |-> <<>>, error |-> listed.error]

\* A variant in which every iterator fetches from the same path.
FetchArgsShared(self) == [path |-> "p1", name |-> Head(self.iter)]

\* The arguments of the fetch made by one iteration of the loop in next().
FetchArgs(self) == [path |-> self.path, name |-> Head(self.iter)]

\* A variant of the loop body in which a failed fetch ends next() with None
\* instead of continuing with the following name.
LoopBodyStopOnFailure(self, got) ==
  LET name == Head(self.iter)
      r == ExtAttrValue(self.path, name, got)
  IN  [self |-> [self EXCEPT !.iter = Tail(@)], returns |-> TRUE,
       ret |-> IF r.res.ok THEN Some(ExtAttr(name, r.res.value)) ELSE None,
       warns |-> r.warns]

\* A variant of the loop body in which a failed fetch yields the attribute
\* with no value instead of skipping it.
LoopBodyYieldNone(self, got) ==
  LET name == Head(self.iter)
      r == ExtAttrValue(self.path, name, got)
  IN  [self |-> [self EXCEPT !.iter = Tail(@)], returns |-> TRUE,
       ret |-> Some(ExtAttr(name, IF r.res.ok THEN r.res.value ELSE None)),
       warns |-> r.warns]

\* A variant of the loop body that fetches the same name again after a
\* failed fetch instead of moving on.
LoopBodyRetry(self, got) ==
  LET name == Head(self.iter)
      r == ExtAttrValue(self.path, name, got)
  IN  IF r.res.ok
      THEN [self |-> [self EXCEPT !.iter = Tail(@)], returns |-> TRUE,
            ret |-> Some(ExtAttr(name, r.res.value)), warns |-> r.warns]
      ELSE [self |-> self, returns |-> FALSE, ret |-> None, warns |-> r.warns]

\* A variant of the loop body that yields the name at the front of the
\* sequence without consuming it.
LoopBodyPeek(self, got) ==
  LET name == Head(self.iter)
      r == ExtAttrValue(self.path, name, got)
  IN  IF r.res.ok
      THEN [self |-> self, returns |-> TRUE,
            ret |-> Some(ExtAttr(name, r.res.value)), warns |-> r.warns]
      ELSE [self |-> [self EXCEPT !.iter = Tail(@)], returns |-> FALSE,
            ret |-> None, warns |-> r.warns]

\* A variant of the loop body that, after a successful fetch, also takes the
\* following name out of the sequence.
LoopBodyLookahead(self, got) ==
  LET name == Head(self.iter)
      r == ExtAttrValue(self.path, name, got)
  IN  IF r.res.ok
      THEN [self |-> [self EXCEPT !.iter = IF Tail(@) = <<>> THEN <<>> ELSE Tail(Tail(@))],
            returns |-> TRUE,
            ret |-> Some(ExtAttr(name, r.res.value)), warns |-> r.warns]
      ELSE [self |-> [self EXCEPT !.iter = Tail(@)], returns |-> FALSE,
            ret |-> None, warns |-> r.warns]

\* One iteration of `for name in &mut self.iter`, given what xattr::get
\* returned for the name pulled: the iterator afterwards, whether the
\* function returns, the value returned, and the warnings emitted.
LoopBody(self, got) ==
  LET name == Head(self.iter)
      r == ExtAttrValue(self.path, name, got)
  IN  IF r.res.ok
      THEN [self |-> [self EXCEPT !.iter = Tail(@)], returns |-> TRUE,
            ret |-> Some(ExtAttr(name, r.res.value)), warns |-> r.warns]
      ELSE [self |-> [self EXCEPT !.iter = Tail(@)], returns |-> FALSE,
            ret |-> None, warns |-> r.warns]

\* Whether the for loop of next() has run out of names.
LoopExhausted(self) == self.iter = <<>>

DonePulls(i) == Cardinality({k \in 1..Len(out[i]) : out[i][k] = None})

\* --------------------------------------------------------------- actions
\* The file systems an enumeration starts from: "p1" is a file and "p2" does
\* not exist.  Names are opaque to the program, so the names the file carries
\* at the start are taken to be the first ones of the pool; any other name
\* set arises when the other process adds or removes a name.
InitFs ==
  {f \in [Paths -> Files \cup {NoFile}] :
     /\ f["p1"].exists
     /\ ~f["p2"].exists
     /\ \A m, n \in Present(f["p1"]) \cup (Names \ Present(f["p1"])) :
          (n \in Present(f["p1"]) /\ Pos(m) < Pos(n)) => m \in Present(f["p1"])}

Init ==
  /\ fs \in InitFs
  /\ its = [i \in Iters |-> Uncalled]
  /\ pc = [i \in Iters |-> "idle"]
  /\ out = [i \in Iters |-> <<>>]
  /\ log = <<>>
  /\ lists = [i \in Iters |-> <<>>]
  /\ gets = [i \in Iters |-> <<>>]
  /\ muts = 0

\* The caller calls ext_attrs(path) and keeps the result in slot i.
ExtAttrsCall(i, path) ==
  /\ its[i].tag = "Uncalled"
  /\ \E listed \in XattrList(fs, path) :
       /\ lists' = [lists EXCEPT ![i] = Append(@, [path |-> path, res |-> listed])]
       /\ its' = [its EXCEPT ![i] = ExtAttrsResult(path, listed)]
  /\ UNCHANGED <<fs, pc, out, log, gets, muts>>

\* Whether a step of next() can be taken for slot i: either the caller is
\* inside next() (a fetch failed and the loop continues), or the caller calls
\* next() now and the step is the first of that call.
InNext(i) ==
  /\ its[i].tag = "Ok"
  /\ \/ pc[i] = "loop"
     \/ pc[i] = "idle" /\ DonePulls(i) < MaxDonePulls

\* next(): the name sequence is exhausted, the loop ends and None is returned.
NextReturnNone(i) ==
  /\ InNext(i)
  /\ LoopExhausted(its[i])
  /\ out' = [out EXCEPT ![i] = Append(@, None)]
  /\ pc' = [pc EXCEPT ![i] = "idle"]
  /\ UNCHANGED <<fs, its, log, lists, gets, muts>>

\* next(): one iteration of the loop: pull a name, fetch its value, and
\* either return the attribute or log the failure and continue.
NextIterate(i) ==
  /\ InNext(i)
  /\ ~LoopExhausted(its[i])
  /\ LET args == FetchArgs(its[i]) IN
     \E got \in XattrGet(fs, args.path, args.name) :
       LET b == LoopBody(its[i], got) IN
         /\ gets' = [gets EXCEPT ![i] = Append(@, [path |-> args.path, name |-> args.name, res |-> got])]
         /\ its' = [its EXCEPT ![i] = b.self]
         /\ log' = log \o b.warns
         /\ out' = [out EXCEPT ![i] = IF b.returns THEN Append(@, b.ret) ELSE @]
         /\ pc' = [pc EXCEPT ![i] = IF b.returns THEN "idle" ELSE "loop"]
  /\ UNCHANGED <<fs, lists, muts>>

\* Whether some enumeration still has names to fetch.  Changes made to a
\* file before the listing are covered by Init, which ranges over the
\* contents of the file, and the program reads nothing after its last fetch,
\* so the other process is modelled while fetches are still to come.
Enumerating == \E i \in Iters : its[i].tag = "Ok" /\ its[i].iter # <<>>

\* Another process sets or replaces an attribute of the file (setfattr -n).
SetAttr(path, name, value) ==
  /\ muts < MaxMutations
  /\ Enumerating
  /\ fs[path].exists
  /\ fs[path].attrs[name] # value
  /\ fs' = [fs EXCEPT ![path].attrs[name] = value]
  /\ muts' = muts + 1
  /\ UNCHANGED <<its, pc, out, log, lists, gets>>

\* Another process removes an attribute of the file (setfattr -x).
RemoveAttr(path, name) ==
  /\ muts < MaxMutations
  /\ Enumerating
  /\ fs[path].exists
  /\ fs[path].attrs[name] # Absent
  /\ fs' = [fs EXCEPT ![path].attrs[name] = Absent]
  /\ muts' = muts + 1
  /\ UNCHANGED <<its, pc, out, log, lists, gets>>

Next ==
  \/ \E i \in SoloIters, p \in Paths : ExtAttrsCall(i, p)
  \/ \E i \in SoloIters : NextReturnNone(i)
  \/ \E i \in SoloIters : NextIterate(i)
  \/ \E p \in Paths, n \in Names, v \in Values \cup {NoValue} : SetAttr(p, n, v)
  \/ \E p \in Paths, n \in Names : RemoveAttr(p, n)

Spec == Init /\ [][Next]_vars

\* ------------------------------------------------- observations of a run
\* Whether ext_attrs has been called for slot i, and whether its listing failed.
Called(i) == lists[i] # <<>>
ListFailed(i) == Called(i) /\ ~lists[i][1].res.ok
ListOk(i) == Called(i) /\ lists[i][1].res.ok
\* The names the listing call of slot i returned, in listing order.
Listed(i) == IF ListOk(i) THEN lists[i][1].res.value ELSE <<>>
\* The attributes next() has yielded so far, in order.
IsSome(o) == o.some
Yielded(i) ==
  LET s == SelectSeq(out[i], IsSome) IN [k \in 1..Len(s) |-> s[k].v]
\* The names of the attributes next() has yielded so far, in order.
YieldedNames(i) ==
  LET s == SelectSeq(out[i], IsSome) IN [k \in 1..Len(s) |-> s[k].v.name]
\* Whether next() has returned None at least once.
Exhausted(i) == \E k \in 1..Len(out[i]) : out[i][k] = None
\* The positions of the fetches of slot i that failed / succeeded.
FailedAt(i) == {k \in 1..Len(gets[i]) : ~gets[i][k].res.ok}
SucceededAt(i) == {k \in 1..Len(gets[i]) : gets[i][k].res.ok}

TypeOK ==
  /\ muts \in 0..MaxMutations
  /\ \A i \in Iters : pc[i] \in {"idle", "loop"}

\* ----------------------------------------------------------------- C1
\* C1: when the listing call made by ext_attrs fails, ext_attrs returns that
\* I/O error and the enumeration produces nothing: no iterator exists, no
\* value fetch is attempted, no attribute is produced, no warning is logged.
C1_ListFailureIsFatal ==
  \A i \in Iters :
    ListFailed(i) =>
      /\ its[i].tag = "Err"
      /\ its[i].error = lists[i][1].res.error
      /\ its[i].iter = <<>>
      /\ pc[i] = "idle"
      /\ gets[i] = <<>>
      /\ out[i] = <<>>
      /\ (\A j \in Iters \ {i} : gets[j] = <<>>) => log = <<>>

\* ext_attrs was called on a path that does not exist.
C1_Witness ==
  \E i \in Iters :
    /\ ListFailed(i)
    /\ lists[i][1].res.error = "NotFound"
    /\ its[i].tag = "Err"

\* ----------------------------------------------------------------- C2
\* C2: a value-fetch failure never ends the enumeration: next returns None
\* only when the name sequence is exhausted (every listed name has then been
\* fetched), every name whose fetch succeeded has been yielded whatever
\* happened to the names before and after it, and a failure is never handed
\* to the caller: after a failed fetch next stays in its loop unless no name
\* is left, and the iterator obtained from ext_attrs stays an iterator.
C2_FetchFailureNeverEnds ==
  \A i \in Iters :
    /\ Exhausted(i) => (its[i].iter = <<>> /\ Len(gets[i]) = Len(Listed(i)))
    /\ LET names == Range(YieldedNames(i))
       IN  \A k \in SucceededAt(i) : gets[i][k].name \in names
    /\ (FailedAt(i) # {}) => its[i].tag = "Ok"
    /\ (pc[i] = "idle" /\ Len(gets[i]) \in FailedAt(i)) =>
         (its[i].iter = <<>> /\ out[i] # <<>> /\ out[i][Len(out[i])] = None)

\* The fetches of the first and the third listed name failed, the second
\* succeeded and was yielded, and the iterator then reported exhaustion.
C2_Witness ==
  \E i \in Iters :
    /\ Exhausted(i)
    /\ FailedAt(i) = {1, 3}
    /\ SucceededAt(i) = {2}
    /\ Len(Yielded(i)) = 1
    /\ Yielded(i)[1].name = Listed(i)[2]

\* ----------------------------------------------------------------- C3
\* What the fetches g, in order, are expected to contribute to the output:
\* one attribute per successful fetch, carrying the fetched bytes.
RECURSIVE ExpectedYield(_)
ExpectedYield(g) ==
  IF g = <<>> THEN <<>>
  ELSE LET h == Head(g) IN
       (IF h.res.ok
        THEN <<[name |-> h.name,
                value |-> IF h.res.value.some
                          THEN [some |-> TRUE, v |-> [inner |-> h.res.value.v]]
                          ELSE [some |-> FALSE]]>>
        ELSE <<>>) \o ExpectedYield(Tail(g))

\* C3: names are fetched in listing order, and the sequence yielded is exactly
\* the listed names whose fetch succeeded, in listing order, each paired with
\* the value its fetch returned; a name whose fetch failed is omitted.  Once
\* the iterator is exhausted this covers the whole listing.
C3_YieldIsListingFilteredByFetch ==
  \A i \in Iters :
    ListOk(i) =>
      /\ Len(gets[i]) <= Len(Listed(i))
      /\ \A k \in 1..Len(gets[i]) : gets[i][k].name = Listed(i)[k]
      /\ Yielded(i) = ExpectedYield(gets[i])
      /\ Exhausted(i) => Len(gets[i]) = Len(Listed(i))

\* Three names were listed, the fetch of the middle one failed, and the
\* iterator was pulled to exhaustion: the first and the third were yielded
\* with the bytes stored on the file.
C3_Witness ==
  \E i \in Iters :
    /\ Exhausted(i)
    /\ Len(Listed(i)) = 3
    /\ FailedAt(i) = {2}
    /\ Len(Yielded(i)) = 2
    /\ Yielded(i)[1] = [name |-> Listed(i)[1], value |-> Some([inner |-> "v1"])]
    /\ Yielded(i)[2] = [name |-> Listed(i)[3], value |-> Some([inner |-> "v2"])]
    /\ Len(log) = 1
    /\ log[1].name = Listed(i)[2]

\* ----------------------------------------------------------------- C4
RECURSIVE IsSubseq(_, _)
\* Whether the sequence a can be obtained from b by deleting elements.
IsSubseq(a, b) ==
  IF a = <<>> THEN TRUE
  ELSE IF b = <<>> THEN FALSE
  ELSE IF Head(a) = Head(b) THEN IsSubseq(Tail(a), Tail(b))
  ELSE IsSubseq(a, Tail(b))

\* C4 as stated: pulled to exhaustion the iterator has produced one attribute
\* per listed name, in listing order, so as many attributes as listed names.
C4_OnePerListedName ==
  \A i \in Iters :
    (ListOk(i) /\ Exhausted(i)) => YieldedNames(i) = Listed(i)

\* C4 as amended: pulled to exhaustion the iterator has produced one attribute
\* per listed name whose fetch succeeded, in listing order: the names yielded
\* are the listing with the failed names deleted, and the number yielded plus
\* the number of failed fetches equals the number of listed names.
C4_OnePerFetchedName ==
  \A i \in Iters :
    (ListOk(i) /\ Exhausted(i)) =>
      /\ IsSubseq(YieldedNames(i), Listed(i))
      /\ Len(Yielded(i)) + Cardinality(FailedAt(i)) = Len(Listed(i))
      /\ (FailedAt(i) = {}) => YieldedNames(i) = Listed(i)

\* An exhausted iterator over three listed names that yielded only two of
\* them, because one fetch failed.
C4_Witness ==
  \E i \in Iters :
    /\ Exhausted(i)
    /\ Len(Listed(i)) = 3
    /\ Cardinality(FailedAt(i)) = 1
    /\ Len(YieldedNames(i)) = 2

\* ----------------------------------------------------------------- C5
RECURSIVE ExpectedWarnings(_, _)
\* The warnings the fetches g of an iterator created for `path` must emit.
ExpectedWarnings(g, path) ==
  IF g = <<>> THEN <<>>
  ELSE LET h == Head(g) IN
       (IF h.res.ok THEN <<>>
        ELSE <<[name |-> h.name, path |-> path, cause |-> h.res.error]>>)
       \o ExpectedWarnings(Tail(g), path)

RECURSIVE FailedFetches(_)
\* The number of failed fetches of the iterators in the set I.
FailedFetches(I) ==
  IF I = {} THEN 0
  ELSE LET i == CHOOSE x \in I : TRUE
       IN  Cardinality(FailedAt(i)) + FailedFetches(I \ {i})

\* C5: the number of warnings emitted equals the number of fetches that have
\* failed so far, and every failed fetch emitted exactly one warning carrying
\* the attribute name, the path the iterator was created for and the cause of
\* that fetch, in the order of the failures; a successful fetch, the listing
\* call and reaching exhaustion emit none.
C5_OneWarningPerFailedFetch ==
  /\ Len(log) = FailedFetches(Iters)
  /\ \A i \in Iters :
       Called(i) => IsSubseq(ExpectedWarnings(gets[i], lists[i][1].path), log)

\* Two fetches failed for different causes and one succeeded; the iterator
\* is exhausted and the log holds the two warnings.
C5_Witness ==
  \E i \in Iters :
    /\ Exhausted(i)
    /\ Cardinality(FailedAt(i)) = 2
    /\ SucceededAt(i) # {}
    /\ Len(log) = 2
    /\ log[1].cause # log[2].cause
    /\ log[1].path = "p1"

\* ----------------------------------------------------------------- C6
\* C6 as stated: when the fetch for a listed name fails, an attribute with
\* that name and value None is produced (checked once next has returned).
C6_FailedFetchYieldsNone ==
  \A i \in Iters :
    pc[i] = "idle" =>
      LET y == Yielded(i)
      IN  \A k \in FailedAt(i) :
            \E j \in 1..Len(y) : y[j] = ExtAttr(gets[i][k].name, None)

\* C6 as amended: a produced attribute has value None only when its fetch
\* succeeded and reported no value; when the fetch for a listed name fails,
\* no attribute is produced for that name at all.
C6_NoneOnlyFromValuelessFetch ==
  \A i \in Iters :
    /\ LET y == Yielded(i)
       IN  \A j \in 1..Len(y) :
             y[j].value = None =>
               \E k \in SucceededAt(i) :
                 /\ gets[i][k].name = y[j].name
                 /\ ~gets[i][k].res.value.some
    /\ LET names == Range(YieldedNames(i))
       IN  \A k \in FailedAt(i) : gets[i][k].name \notin names

\* next has returned after a failed fetch and after yielding an attribute
\* whose value is None.
C6_Witness ==
  \E i \in Iters :
    /\ pc[i] = "idle"
    /\ FailedAt(i) # {}
    /\ \E j \in 1..Len(Yielded(i)) : Yielded(i)[j].value = None

\* ----------------------------------------------------------------- C7
\* C7: no retries: over one enumeration no name is fetched twice, the number
\* of fetch calls never exceeds the number of listed names, and a name whose
\* fetch failed is never yielded, whatever a second fetch would have returned.
C7_NoRetries ==
  \A i \in Iters :
    /\ Len(gets[i]) <= Len(Listed(i))
    /\ \A j, k \in 1..Len(gets[i]) : gets[i][j].name = gets[i][k].name => j = k
    /\ LET y == YieldedNames(i)
       IN  \A k \in FailedAt(i) : \A j \in 1..Len(y) : y[j] # gets[i][k].name

\* The fetch of a name failed although the file still stores bytes for it (a
\* second fetch could succeed), and the exhausted iterator never yielded it.
C7_Witness ==
  \E i \in Iters :
    /\ Exhausted(i)
    /\ muts = 0
    /\ \E k \in FailedAt(i) :
         /\ fs[gets[i][k].path].attrs[gets[i][k].name] \in Values
         /\ \A j \in 1..Len(Yielded(i)) : Yielded(i)[j].name # gets[i][k].name
    /\ Len(gets[i]) = Len(Listed(i))

\* ----------------------------------------------------------------- C8
\* C8: no attribute is produced twice per pass: the names yielded by one
\* iterator are pairwise distinct (a listing holds no name twice), and no
\* more attributes are yielded than names were listed.
C8_NoAttributeTwice ==
  \A i \in Iters :
    LET y == YieldedNames(i)
    IN  /\ \A j, k \in 1..Len(y) : y[j] = y[k] => j = k
        /\ Len(y) <= Len(Listed(i))

\* Every one of three listed names has been yielded.
C8_Witness ==
  \E i \in Iters :
    /\ Len(Listed(i)) = 3
    /\ Len(Yielded(i)) = 3
    /\ Exhausted(i)

\* ----------------------------------------------------------------- C9
RECURSIVE FailedFetchesOf(_, _)
\* The number of failed fetches of the name n by the iterators in the set I.
FailedFetchesOf(I, n) ==
  IF I = {} THEN 0
  ELSE LET i == CHOOSE x \in I : TRUE
       IN  Cardinality({k \in FailedAt(i) : gets[i][k].name = n})
             + FailedFetchesOf(I \ {i}, n)

\* C9: whatever another process does to the attributes of the file during
\* the enumeration, the listing call is made exactly once, by ext_attrs, and
\* every yielded name is one the listing returned: a name added after the
\* listing is never fetched or yielded, and a listed name whose fetch fails
\* (for instance because it was removed) is skipped with one warning while
\* the enumeration goes on to the names that remain.
C9_SingleListingUnderMutation ==
  \A i \in Iters :
    LET listed == Range(Listed(i))
        yielded == Range(YieldedNames(i))
    IN  /\ Len(lists[i]) = (IF its[i].tag = "Uncalled" THEN 0 ELSE 1)
        /\ yielded \subseteq listed
        /\ \A k \in 1..Len(gets[i]) : gets[i][k].name \in listed
        /\ \A k \in FailedAt(i) :
             /\ gets[i][k].name \notin yielded
             /\ Cardinality({w \in 1..Len(log) : log[w].name = gets[i][k].name})
                  = FailedFetchesOf(Iters, gets[i][k].name)
             /\ (pc[i] = "idle" /\ k = Len(gets[i])) => its[i].iter = <<>>

\* Another process removed a listed name after the listing; its fetch failed
\* with one warning, and a name listed after it was still yielded.
C9_Witness ==
  \E i \in Iters :
    /\ muts = 1
    /\ \E k \in FailedAt(i) :
         /\ gets[i][k].res.error = "NoData"
         /\ fs[gets[i][k].path].attrs[gets[i][k].name] = Absent
         /\ \E m \in SucceededAt(i) : m > k
    /\ Len(log) = 1

\* Another process added a name after the listing; the exhausted iterator
\* never fetched it.
C9_AddedWitness ==
  \E i \in Iters :
    /\ Exhausted(i)
    /\ muts = 1
    /\ \E n \in Names :
         /\ fs[lists[i][1].path].attrs[n] # Absent
         /\ n \notin Range(Listed(i))
         /\ Listed(i) # <<>>

\* ---------------------------------------------------------------- C10
\* C10: a step of next whose fetch returns Ok with no value yields an entry
\* for the fetched name with value None and emits no warning.
C10_ValuelessIsYieldedQuietly ==
  [][\A i \in Iters :
       (/\ Len(gets'[i]) = Len(gets[i]) + 1
        /\ gets'[i][Len(gets'[i])].res = Ok(None))
       => /\ log' = log
          /\ out'[i] = Append(out[i], Some(ExtAttr(Head(its[i].iter), None)))
          /\ pc'[i] = "idle"]_vars

\* A name stored without value was fetched and yielded with value None while
\* the log stayed empty.
C10_Witness ==
  \E i \in Iters :
    /\ \E k \in SucceededAt(i) :
         /\ gets[i][k].res = Ok(None)
         /\ fs[gets[i][k].path].attrs[gets[i][k].name] = NoValue
         /\ \E j \in 1..Len(Yielded(i)) : Yielded(i)[j] = ExtAttr(gets[i][k].name, None)
    /\ log = <<>>

\* ---------------------------------------------------------------- C11
\* The attribute a file content `st` of the name n enumerates to.
Stored(n, st) ==
  [name |-> n,
   value |-> IF st = NoValue THEN [some |-> FALSE]
             ELSE [some |-> TRUE, v |-> [inner |-> st]]]

\* The (name, value) pairs the file at `path` carries.
AttrSet(path) == {Stored(n, fs[path].attrs[n]) : n \in Present(fs[path])}

\* C11: round trip: when no fetch failed and no other process changed the
\* file, an enumeration pulled to exhaustion has yielded exactly the set of
\* (name, value) pairs the file carries: nothing missing, nothing extra, no
\* value altered, each pair once.
C11_RoundTrip ==
  \A i \in Iters :
    (ListOk(i) /\ Exhausted(i) /\ FailedAt(i) = {} /\ muts = 0) =>
      LET y == Yielded(i)
      IN  /\ Range(y) = AttrSet(lists[i][1].path)
          /\ Len(y) = Cardinality(AttrSet(lists[i][1].path))

\* A file carrying three names, one of them without value and the others
\* with different bytes, was enumerated to exhaustion without a failure.
C11_Witness ==
  \E i \in Iters :
    /\ ListOk(i) /\ Exhausted(i) /\ FailedAt(i) = {} /\ muts = 0
    /\ Len(Yielded(i)) = 3
    /\ \E j, k, m \in 1..3 :
         /\ Yielded(i)[j].value = None
         /\ Yielded(i)[k].value = Some([inner |-> "v1"])
         /\ Yielded(i)[m].value = Some([inner |-> "v2"])

\* ---------------------------------------------------------------- C13
\* C13: when the listing reports no name, ext_attrs returns Ok (an iterator
\* exists), and every pull, the first included, returns None without a fetch
\* and without a warning.
C13_EmptyListing ==
  \A i \in Iters :
    (ListOk(i) /\ Listed(i) = <<>>) =>
      /\ its[i].tag = "Ok"
      /\ its[i].path = lists[i][1].path
      /\ pc[i] = "idle"
      /\ gets[i] = <<>>
      /\ \A k \in 1..Len(out[i]) : out[i][k] = None
      /\ (\A j \in Iters \ {i} : gets[j] = <<>>) => log = <<>>

\* A file without attributes was listed and the first pull returned None.
C13_Witness ==
  \E i \in Iters :
    /\ ListOk(i)
    /\ Listed(i) = <<>>
    /\ Present(fs[lists[i][1].path]) = {}
    /\ out[i] # <<>>
    /\ out[i][1] = None

\* ---------------------------------------------------------------- C14
\* The number of calls of next() made so far for slot i, the one in progress
\* included.
Pulls(i) == Len(out[i]) + (IF pc[i] = "loop" THEN 1 ELSE 0)

\* Inside a call of next() the program runs on its own: the loop takes its
\* next step once the blocking fetch has returned.  Whether the caller pulls
\* again is the caller's choice and is not assumed.
FairSpec ==
  /\ Spec
  /\ \A i \in SoloIters :
       /\ WF_vars(pc[i] = "loop" /\ NextIterate(i))
       /\ WF_vars(pc[i] = "loop" /\ NextReturnNone(i))

\* Every loop iteration consumes one listed name and fetches it, so a listing
\* of N names allows N fetches in all; at most N pulls return an attribute,
\* every pull after the N-th returns None, and when all N fetches failed the
\* first pull has consumed all names, emitted N warnings and returned None.
C14_Bounded ==
  \A i \in Iters :
    ListOk(i) =>
      LET N == Len(Listed(i))
      IN  /\ Len(gets[i]) + Len(its[i].iter) = N
          /\ \A k \in 1..Len(out[i]) : k > N => out[i][k] = None
          /\ Pulls(i) > N => its[i].iter = <<>>
          /\ (Cardinality(FailedAt(i)) = N /\ pc[i] = "idle" /\ N > 0) =>
               /\ out[i] # <<>>
               /\ \A k \in 1..Len(out[i]) : out[i][k] = None
               /\ Cardinality({w \in 1..Len(log) : log[w].path = lists[i][1].path}) >= N

\* C14: the enumeration is finite: every call of next() terminates (a call
\* that continues after a failed fetch eventually returns), and for a listing
\* of N names the iterator reaches exhaustion after at most N+1 pulls for
\* every pattern of fetch outcomes, the all-fail pattern included.
C14_Finite ==
  /\ []C14_Bounded
  /\ \A i \in SoloIters : (pc[i] = "loop") ~> (pc[i] = "idle")

\* All three fetches of a listing of three names failed; the first pull
\* returned None and three warnings were logged.
C14_Witness ==
  \E i \in Iters :
    /\ Len(Listed(i)) = 3
    /\ FailedAt(i) = {1, 2, 3}
    /\ out[i] = <<None>>
    /\ Len(log) = 3

\* ---------------------------------------------------------------- C15
\* C15: the iterator is single-pass and not restartable: once next() has
\* returned None, the iterator is never inside the loop again with a name to
\* fetch, and every later step of it is a pull that returns None: it makes no
\* fetch, emits no warning, yields no name and leaves the iterator as it is.
C15_SinglePass ==
  [][\A i \in Iters :
       Exhausted(i) =>
         /\ gets'[i] = gets[i]
         /\ its'[i] = its[i]
         /\ pc'[i] = "idle"
         /\ out'[i] # out[i] => (out'[i] = Append(out[i], None) /\ log' = log)
         /\ Yielded(i)' = Yielded(i)]_vars

\* The iterator yielded names, returned None, and returned None again on the
\* following pull.
C15_Witness ==
  \E i \in Iters :
    /\ Len(out[i]) >= 3
    /\ out[i][1].some
    /\ out[i][Len(out[i]) - 1] = None
    /\ out[i][Len(out[i])] = None

\* ---------------------------------------------------------------- C16
\* C16: fetching is lazy, without lookahead: ext_attrs fetches nothing; the
\* names fetched so far are the first ones of the listing, in listing order,
\* and exactly the names no longer in the iterator; a pull stops at the first
\* successful fetch, so after a pull that yields the name at listing
\* position k exactly the names at positions 1..k have been fetched.
C16_LazyNoLookahead ==
  \A i \in Iters :
    ListOk(i) =>
      LET listed == Listed(i)
          g == gets[i]
      IN  /\ (out[i] = <<>> /\ pc[i] = "idle") => g = <<>>
          /\ Len(g) <= Len(listed)
          /\ \A k \in 1..Len(g) : g[k].name = listed[k] /\ g[k].path = lists[i][1].path
          /\ its[i].iter = SubSeq(listed, Len(g) + 1, Len(listed))
          /\ Cardinality(SucceededAt(i)) = Len(Yielded(i))
          /\ (pc[i] = "idle" /\ out[i] # <<>> /\ out[i][Len(out[i])].some) =>
               /\ g # <<>>
               /\ g[Len(g)].res.ok
               /\ out[i][Len(out[i])].v.name = listed[Len(g)]
          /\ (pc[i] = "loop") => (g # <<>> /\ ~g[Len(g)].res.ok)

\* A pull failed to fetch the first listed name and yielded the second, and
\* the third listed name has not been fetched.
C16_Witness ==
  \E i \in Iters :
    /\ Len(Listed(i)) = 3
    /\ pc[i] = "idle"
    /\ Len(out[i]) = 1
    /\ out[i][1].some
    /\ out[i][1].v.name = Listed(i)[2]
    /\ Len(gets[i]) = 2
    /\ its[i].iter = <<Listed(i)[3]>>

\* ---------------------------------------------------------------- C17
\* What a fetch that succeeds reports for a name stored in state st: the
\* stored bytes as an OsString, or no value when there is none to report.
Fetched(n, st) ==
  [name |-> n,
   value |-> IF st \in Values THEN [some |-> TRUE, v |-> [inner |-> st]]
             ELSE [some |-> FALSE]]

\* C17: values are not snapshotted: whenever next() yields an attribute, it
\* is the name at the front of the remaining sequence with the value the file
\* stores for it in the state in which the fetch is made, whatever the file
\* stored when the names were listed.
C17_ValueAtFetchTime ==
  [][\A i \in Iters :
       (out'[i] # out[i] /\ out'[i][Len(out'[i])].some) =>
         /\ its[i].tag = "Ok"
         /\ its[i].iter # <<>>
         /\ out'[i][Len(out'[i])].v =
              Fetched(Head(its[i].iter), fs[its[i].path].attrs[Head(its[i].iter)])
         /\ fs' = fs]_vars

\* The listing saw one name; the single change made to the file left that
\* name as the only one and gave it the value "v2", so the change replaced
\* the value the name had when it was listed; the change was made while the
\* name was still to be fetched, and the name was yielded with "v2".
C17_Witness ==
  \E i \in Iters : \E n \in Names :
    /\ Listed(i) = <<n>>
    /\ muts = 1
    /\ Present(fs[lists[i][1].path]) = {n}
    /\ fs[lists[i][1].path].attrs[n] = "v2"
    /\ out[i] # <<>>
    /\ out[i][1] = [some |-> TRUE,
                    v |-> [name |-> n, value |-> [some |-> TRUE, v |-> [inner |-> "v2"]]]]

\* ------------------------------------------------- two enumerations alive
\* The largest number of attributes a file carries when two enumerations
\* run side by side.
MaxPairNames == 2

\* What the k-th name of the pool stores on a path when two enumerations
\* start: the two paths store different bytes under the same name, and every
\* third name has no value to report.
PairValue(p, k) ==
  IF k % 3 = 0 THEN NoValue
  ELSE IF (k % 3 = 1) = (p = "p1") THEN "v1" ELSE "v2"

\* The file systems two enumerations start from: both paths are files, each
\* carrying the first names of the pool, and nobody else touches them.
PairFs ==
  {[p \in Paths |->
      [exists |-> TRUE,
       attrs |-> [n \in Names |-> IF Pos(n) <= c[p] THEN PairValue(p, Pos(n)) ELSE Absent]]] :
     c \in [Paths -> 0..MaxPairNames]}

PairInit ==
  /\ fs \in PairFs
  /\ its = [i \in Iters |-> Uncalled]
  /\ pc = [i \in Iters |-> "idle"]
  /\ out = [i \in Iters |-> <<>>]
  /\ log = <<>>
  /\ lists = [i \in Iters |-> <<>>]
  /\ gets = [i \in Iters |-> <<>>]
  /\ muts = 0

\* A single thread holds two iterators and pulls from them in any order,
\* each until it returns None; no other process changes the files.
PairNext ==
  \/ \E i \in Iters, p \in Paths : ExtAttrsCall(i, p)
  \/ \E i \in Iters : ~Exhausted(i) /\ NextReturnNone(i)
  \/ \E i \in Iters : ~Exhausted(i) /\ NextIterate(i)

PairSpec == PairInit /\ [][PairNext]_vars

\* ---------------------------------------------------------------- C12
\* Whether slots i and j hold two enumerations of the same path, both pulled
\* until None.
SamePathTwice(i, j) ==
  /\ i # j
  /\ ListOk(i)
  /\ ListOk(j)
  /\ lists[i][1].path = lists[j][1].path
  /\ Exhausted(i)
  /\ Exhausted(j)

C18_Independent ==
  /\ [](\A i \in Iters :
          ListOk(i) =>
            LET own == lists[i][1].path
                listed == Listed(i)
                g == gets[i]
                y == Yielded(i)
            IN  /\ its[i].path = own
                /\ \A k \in 1..Len(g) : g[k].path = own /\ g[k].name = listed[k]
                /\ its[i].iter = SubSeq(listed, Len(g) + 1, Len(listed))
                /\ y = ExpectedYield(g)
                /\ \A k \in 1..Len(y) : y[k] = Fetched(y[k].name, fs[own].attrs[y[k].name]))
  /\ [][\A i, j \in Iters :
          (i # j /\ <<its[i], pc[i], out[i], gets[i], lists[i]>>' # <<its[i], pc[i], out[i], gets[i], lists[i]>>) =>
            <<its[j], pc[j], out[j], gets[j], lists[j]>>' = <<its[j], pc[j], out[j], gets[j], lists[j]>>]_vars

\* Two iterators over different paths are both half way: each has yielded
\* the first of its two names, with the bytes its own path stores, and each
\* still holds its second name.
C18_Witness ==
  \E i, j \in Iters :
    /\ ListOk(i)
    /\ ListOk(j)
    /\ lists[i][1].path # lists[j][1].path
    /\ Len(Listed(i)) = 2
    /\ Len(Listed(j)) = 2
    /\ Len(Yielded(i)) = 1
    /\ Len(Yielded(j)) = 1
    /\ Yielded(i)[1].name = Yielded(j)[1].name
    /\ Yielded(i)[1].value # Yielded(j)[1].value
    /\ Len(its[i].iter) = 1
    /\ Len(its[j].iter) = 1
====
